---------------------------- MODULE Spec2Model ----------------------------
(***************************************************************************)
(* A model of FileSenderCore (src/filesender_core.py): the receiver        *)
(* session of one inbound connection, the confirmation gate with its       *)
(* pending set, id counter and lock, the sender operation send_file, and   *)
(* the start/stop lifecycle with its listener and discovery threads.       *)
(*                                                                         *)
(* Threads are interleaved at the granularity at which they touch shared   *)
(* state: one step per socket call, per lock-protected read or write of    *)
(* an attribute, and per unprotected attribute write of stop_server.       *)
(* A TCP connection is a pair of byte streams; recv returns whatever has   *)
(* arrived, up to BUFFER_SIZE, with no message boundaries.                 *)
(***************************************************************************)
EXTENDS Integers, Sequences, FiniteSets, TLC

(***************************************************************************)
(* Bounds of the model.                                                    *)
(***************************************************************************)
\* inbound connections (receiver sessions) over a run
MaxSessions == 2
\* successful passes of start_server beyond its running check
MaxStarts == 2
\* respond_to_confirmation calls that return True over a run
MaxRespondTrue == 2
\* the length of a file send_file sends
MaxFileLen == 7
\* the ticks counted after the probe of search_devices
MaxSearchClock == 8

Sessions == 1..MaxSessions
Listeners == 1..MaxStarts

(***************************************************************************)
(* Program constants.  BUFFER_SIZE is 4096 in the source; the model keeps  *)
(* its role (the most one recv returns) at a size that holds a header and  *)
(* some bytes after it, and that the files of the model can exceed.        *)
(***************************************************************************)
BUFFER_SIZE == 6

\* APP_NAME, and the default timeout of search_devices, in ticks
APP_NAME == "FileSenderMatrix"
SEARCH_TIMEOUT == 3

\* no thread holds the lock; the attribute names no socket; transfer_id = None
NoThread == 0
NoSocket == 0
NoId == <<>>

\* the decimal digits, as str() writes them and int() reads them
DigitChars == <<"0", "1", "2", "3", "4", "5", "6", "7", "8", "9">>

\* the bytes a file body is made of
Bytes == {"x", "y"}

(***************************************************************************)
(* Strings are sequences of one-character strings.                         *)
(***************************************************************************)
Min(a, b) == IF a < b THEN a ELSE b

\* bytes/str slicing s[:n] and s[n:]
Take(str, n) == SubSeq(str, 1, Min(n, Len(str)))
Drop(str, n) == SubSeq(str, Min(n, Len(str)) + 1, Len(str))

\* str(n) for n >= 0
RECURSIVE IntToStr(_)
IntToStr(n) ==
    IF n < 10 THEN <<DigitChars[n + 1]>>
    ELSE IntToStr(n \div 10) \o <<DigitChars[(n % 10) + 1]>>

IsDigit(c) == \E i \in 1..10 : DigitChars[i] = c
DigitVal(c) == (CHOOSE i \in 1..10 : DigitChars[i] = c) - 1

\* int(str) succeeds on a non-empty string of digits (the characters of the model)
IntOk(str) == Len(str) > 0 /\ \A i \in 1..Len(str) : IsDigit(str[i])

RECURSIVE StrToInt(_)
StrToInt(str) ==
    IF Len(str) = 0 THEN 0
    ELSE 10 * StrToInt(SubSeq(str, 1, Len(str) - 1)) + DigitVal(str[Len(str)])

\* str.split(";"): the parts between the semicolons
RECURSIVE SplitSemi(_)
SplitSemi(str) ==
    IF \E i \in 1..Len(str) : str[i] = ";"
    THEN LET i == CHOOSE k \in 1..Len(str) :
                      str[k] = ";" /\ \A j \in 1..(k - 1) : str[j] # ";"
         IN  <<SubSeq(str, 1, i - 1)>> \o SplitSemi(SubSeq(str, i + 1, Len(str)))
    ELSE <<str>>

\* os.path.basename: what follows the last "/"
Basename(str) ==
    IF \E i \in 1..Len(str) : str[i] = "/"
    THEN LET i == CHOOSE k \in 1..Len(str) :
                      str[k] = "/" /\ \A j \in (k + 1)..Len(str) : str[j] # "/"
         IN  SubSeq(str, i + 1, Len(str))
    ELSE str

\* f"{filename};{filesize}"
Header(filename, filesize) == filename \o <<";">> \o IntToStr(filesize)

\* filename, filesize_str = file_info_str.split(";"); filesize = int(filesize_str)
HeaderOk(str) == Len(SplitSemi(str)) = 2 /\ IntOk(SplitSemi(str)[2])
HeaderName(str) == Basename(SplitSemi(str)[1])
HeaderSize(str) == StrToInt(SplitSemi(str)[2])


\* f"transfer_{n}": the id string of counter value n
TransferId(n) == <<"transfer_", n>>

(***************************************************************************)
(* What the peers of the model send.                                       *)
(***************************************************************************)
\* the header strings a peer may send as its first payload
PeerHeaders ==
    { Header(<<"a">>, 1), Header(<<"b">>, 2), Header(<<"/">>, 1), <<"a">> }

\* the body bytes a peer may send in one payload
PeerChunks == { <<"x">>, <<"x", "x">> }

\* the most body bytes one peer sends
MaxPeerBody == 2

\* the answers of the operator at the blocking prompt, and of respond callers
Answers == {"yes", "no"}
Decisions == {"accept", "reject"}

\* the ids respond callers try: every id the counter can produce, and one it cannot
RespondIds == { TransferId(n) : n \in 0..(MaxSessions + 1) }

(***************************************************************************)
(* State.                                                                  *)
(***************************************************************************)
VARIABLES
    \* FileSenderCore attributes
    confirmation_mode,          \* "cli" or "gui"
    server_running,             \* self.server_running
    stop_event,                 \* self.stop_event.is_set()
    next_confirmation_id,       \* self._next_confirmation_id
    pending_gui_confirmations,  \* the pending set: a list of items
    gui_confirmation_lock,      \* the session holding the lock, or NoThread
    file_listener_socket,       \* NoSocket, or the listener whose socket it names
    file_listener_thread,       \* the latest listener (and discovery) thread, 0 if none
    \* the thread calling start_server / stop_server
    ctl,
    start_ret,                  \* what the last start_server returned
    \* listener and discovery threads, one pair per start
    lpc, dpc,
    lsock,                      \* each listener's socket: "none", "bound", "closed"
    \* receiver sessions (one thread per accepted connection)
    pc,
    filename, filesize, decision, transfer_id,
    id_tmp,                     \* the counter value loaded by += 1
    ref_current,                \* the list object loaded for append is still the attribute's
    snapshot,                   \* the list read by the removing comprehension
    response_queue,             \* Queue(1) of the session's pending item
    gui_wait,                   \* how response_queue.get ended: "none", "got", "empty"
    received_bytes,
    fh,                         \* bytes written through the session's file object
    saw_eof,                    \* a streaming recv returned b""
    \* the file system: received_files/<name> -> content
    files,
    \* connections
    peer,                       \* peer end: "none", "open", "fin", "finx", "rst"
    inbuf,                      \* bytes arrived at the receiver, not yet read
    sent,                       \* reply tokens the receiver has sent, in order
    peer_body,                  \* body bytes the peer has sent
    peer_hdr,                   \* the peer has sent its header
    \* send_file, one call per connection
    spc,                        \* where the sender is
    src,                        \* the bytes of the file it sends
    src_pos,                    \* how many of them f.read has returned
    rd,                         \* how many reply tokens it has read
    send_ret,                   \* the outcome it returned: "none", "success", "failure"
    \* respond_to_confirmation: per session, the decisions of the calls that
    \* returned True for its pending item
    resp_true,
    \* search_devices, one call
    sd_pc,                      \* "idle", "recv" (in the receive loop), "done"
    sd_clock,                   \* ticks since the probe was sent
    sd_wait,                    \* ticks the current recvfrom has waited
    found_servers,              \* the entries collected
    \* the network
    in_flight                   \* bytes the peer has written that have not arrived yet

coreVars == <<confirmation_mode, server_running, stop_event, next_confirmation_id,
              pending_gui_confirmations, gui_confirmation_lock>>
lifeVars == <<file_listener_socket, file_listener_thread, ctl, start_ret, lpc, dpc, lsock>>
sessVars == <<pc, filename, filesize, decision, transfer_id, id_tmp, ref_current,
              snapshot, response_queue, gui_wait, received_bytes, fh, saw_eof>>
netVars == <<peer, inbuf, sent, peer_body, peer_hdr>>
sendVars == <<spc, src, src_pos, rd, send_ret>>
respVars == <<resp_true>>
searchVars == <<sd_pc, sd_clock, sd_wait, found_servers>>
wireVars == <<in_flight>>
vars == <<coreVars, lifeVars, sessVars, files, netVars, sendVars, respVars,
                   searchVars, wireVars>>

(***************************************************************************)
(* Sockets.  The peer end of a connection is "open", "fin" (the peer has   *)
(* closed: what arrived can be read, then recv returns b""), "finx" (the   *)
(* same, and the receiver has sent since: the peer's host answers bytes    *)
(* for a closed socket with RST) or "rst" (reset: recv and send raise).    *)
(* A send succeeds unless the connection has been reset; it appends its    *)
(* token to the stream the peer reads.                                     *)
(***************************************************************************)
PeerClosed(s) == peer[s] \in {"fin", "finx"}

\* conn.sendall(token) returns
SendOk(s, token) ==
    /\ peer[s] # "rst"
    /\ sent' = [sent EXCEPT ![s] = Append(@, token)]
    /\ peer' = [peer EXCEPT ![s] = IF @ = "fin" THEN "finx" ELSE @]
\* conn.sendall(token) raises socket.error
SendFails(s) == peer[s] = "rst" /\ UNCHANGED <<sent, peer>>

\* the pending item of session s: its id and its response queue
PendingItem(s) == [id |-> transfer_id[s], response_queue |-> s]

\* the ids of a list of pending items
PendingIds(items) == { items[i].id : i \in 1..Len(items) }

\* a faulty filter: the comparison inverted, the items of this id are kept
WithoutIdInverted(items, id) == SelectSeq(items, LAMBDA p : p.id = id)

\* [p for p in items if p.get("id") != id]
RECURSIVE WithoutId(_, _)
WithoutId(items, id) ==
    IF Len(items) = 0 THEN <<>>
    ELSE IF Head(items).id # id THEN <<Head(items)>> \o WithoutId(Tail(items), id)
         ELSE WithoutId(Tail(items), id)

\* the file written through a file object opened "wb": the bytes it wrote,
\* over what the file held (another writer of the same name)
Overlay(old, new) == new \o SubSeq(old, Len(new) + 1, Len(old))
WriteFile(name, content) ==
    [n \in (DOMAIN files) \cup {name} |-> IF n = name THEN content ELSE files[n]]
RemoveFile(name) == [n \in (DOMAIN files) \ {name} |-> files[n]]

(***************************************************************************)
(* _handle_file_reception_task: header.                                    *)
(***************************************************************************)
\* conn.recv returns the bytes that have arrived; the header is parsed and the
\* name sanitized
RecvHeader(s) ==
    /\ pc[s] = "header"
    /\ peer[s] # "rst"
    /\ inbuf[s] # <<>>
    /\ LET file_info_str == Take(inbuf[s], BUFFER_SIZE)
       IN  /\ inbuf' = [inbuf EXCEPT ![s] = Drop(@, BUFFER_SIZE)]
           /\ IF ~HeaderOk(file_info_str)
              THEN \* ValueError from the unpacking or from int()
                   /\ pc' = [pc EXCEPT ![s] = "fault"]
                   /\ UNCHANGED <<filename, filesize>>
              ELSE /\ filename' = [filename EXCEPT ![s] = HeaderName(file_info_str)]
                   /\ filesize' = [filesize EXCEPT ![s] = HeaderSize(file_info_str)]
                   /\ pc' = [pc EXCEPT ![s] =
                                IF HeaderName(file_info_str) = <<>>
                                THEN "invalid" ELSE "confirm"]
    /\ UNCHANGED <<coreVars, lifeVars, decision, transfer_id, id_tmp, ref_current,
                   snapshot, response_queue, gui_wait, received_bytes, fh, saw_eof,
                   files, peer, sent, peer_body, peer_hdr, sendVars, respVars,
                   searchVars, wireVars>>

\* conn.recv returns b"": the peer closed without sending; the session returns
RecvHeaderEmpty(s) ==
    /\ pc[s] = "header"
    /\ PeerClosed(s)
    /\ inbuf[s] = <<>>
    /\ pc' = [pc EXCEPT ![s] = "done"]
    /\ UNCHANGED <<coreVars, lifeVars, filename, filesize, decision, transfer_id,
                   id_tmp, ref_current, snapshot, response_queue, gui_wait,
                   received_bytes, fh, saw_eof, files, netVars, sendVars, respVars,
                   searchVars, wireVars>>

\* conn.recv raises: socket.timeout after 20 s of silence, or a reset connection
RecvHeaderRaises(s) ==
    /\ pc[s] = "header"
    /\ \/ peer[s] = "open" /\ inbuf[s] = <<>>
       \/ peer[s] = "rst"
    /\ pc' = [pc EXCEPT ![s] = "fault"]
    /\ UNCHANGED <<coreVars, lifeVars, filename, filesize, decision, transfer_id,
                   id_tmp, ref_current, snapshot, response_queue, gui_wait,
                   received_bytes, fh, saw_eof, files, netVars, sendVars, respVars,
                   searchVars, wireVars>>

\* the sanitized name is empty: reply REJECTED_INVALID_FILENAME and return
RejectInvalidFilename(s) ==
    /\ pc[s] = "invalid"
    /\ IF peer[s] # "rst"
       THEN SendOk(s, "REJECTED_INVALID_FILENAME") /\ pc' = [pc EXCEPT ![s] = "done"]
       ELSE SendFails(s) /\ pc' = [pc EXCEPT ![s] = "fault"]
    /\ UNCHANGED <<coreVars, lifeVars, filename, filesize, decision, transfer_id,
                   id_tmp, ref_current, snapshot, response_queue, gui_wait,
                   received_bytes, fh, saw_eof, files, inbuf, peer_body,
                   peer_hdr, sendVars, respVars,
                   searchVars, wireVars>>

(***************************************************************************)
(* _handle_file_reception_task: the confirmation gate.                     *)
(***************************************************************************)
\* "cli": the operator answers the blocking prompt
ConfirmCli(s, answer) ==
    /\ pc[s] = "confirm"
    /\ confirmation_mode = "cli"
    /\ decision' = [decision EXCEPT ![s] =
                       IF answer = "yes" THEN "accepted" ELSE "rejected"]
    /\ pc' = [pc EXCEPT ![s] = "reply"]
    /\ UNCHANGED <<coreVars, lifeVars, filename, filesize, transfer_id, id_tmp,
                   ref_current, snapshot, response_queue, gui_wait, received_bytes,
                   fh, saw_eof, files, netVars, sendVars, respVars,
                   searchVars, wireVars>>

\* "gui", _get_next_confirmation_id: take the lock, load the counter
GetNextIdLoad(s) ==
    /\ pc[s] = "confirm"
    /\ confirmation_mode = "gui"
    /\ gui_confirmation_lock = NoThread
    /\ gui_confirmation_lock' = s
    /\ id_tmp' = [id_tmp EXCEPT ![s] = next_confirmation_id]
    /\ pc' = [pc EXCEPT ![s] = "id_store"]
    /\ UNCHANGED <<confirmation_mode, server_running, stop_event, next_confirmation_id,
                   pending_gui_confirmations, lifeVars, filename, filesize, decision,
                   transfer_id, ref_current, snapshot, response_queue, gui_wait,
                   received_bytes, fh, saw_eof, files, netVars, sendVars, respVars,
                   searchVars, wireVars>>

\* _get_next_confirmation_id: store the loaded value plus one
GetNextIdStore(s) ==
    /\ pc[s] = "id_store"
    /\ next_confirmation_id' = id_tmp[s] + 1
    /\ pc' = [pc EXCEPT ![s] = "id_return"]
    /\ UNCHANGED <<confirmation_mode, server_running, stop_event,
                   pending_gui_confirmations, gui_confirmation_lock, lifeVars,
                   filename, filesize, decision, transfer_id, id_tmp, ref_current,
                   snapshot, response_queue, gui_wait, received_bytes, fh, saw_eof,
                   files, netVars, sendVars, respVars,
                   searchVars, wireVars>>

\* _get_next_confirmation_id: format the counter as the id, release the lock
GetNextIdReturn(s) ==
    /\ pc[s] = "id_return"
    /\ transfer_id' = [transfer_id EXCEPT ![s] = TransferId(next_confirmation_id)]
    /\ gui_confirmation_lock' = NoThread
    /\ pc' = [pc EXCEPT ![s] = "register"]
    /\ UNCHANGED <<confirmation_mode, server_running, stop_event, next_confirmation_id,
                   pending_gui_confirmations, lifeVars, filename, filesize, decision,
                   id_tmp, ref_current, snapshot, response_queue, gui_wait,
                   received_bytes, fh, saw_eof, files, netVars, sendVars, respVars,
                   searchVars, wireVars>>

\* take the lock and load the pending list the item will be appended to
RegisterLoad(s) ==
    /\ pc[s] = "register"
    /\ gui_confirmation_lock = NoThread
    /\ gui_confirmation_lock' = s
    /\ ref_current' = [ref_current EXCEPT ![s] = TRUE]
    /\ pc' = [pc EXCEPT ![s] = "append"]
    /\ UNCHANGED <<confirmation_mode, server_running, stop_event, next_confirmation_id,
                   pending_gui_confirmations, lifeVars, filename, filesize, decision,
                   transfer_id, id_tmp, snapshot, response_queue, gui_wait,
                   received_bytes, fh, saw_eof, files, netVars, sendVars, respVars,
                   searchVars, wireVars>>

\* list.append on the loaded list object, release the lock; an append to a list
\* the attribute no longer names is lost
RegisterAppend(s) ==
    /\ pc[s] = "append"
    /\ pending_gui_confirmations' =
           IF ref_current[s] THEN Append(pending_gui_confirmations, PendingItem(s))
           ELSE pending_gui_confirmations
    /\ gui_confirmation_lock' = NoThread
    /\ pc' = [pc EXCEPT ![s] = "wait"]
    /\ UNCHANGED <<confirmation_mode, server_running, stop_event, next_confirmation_id,
                   lifeVars, filename, filesize, decision, transfer_id, id_tmp,
                   ref_current, snapshot, response_queue, gui_wait, received_bytes,
                   fh, saw_eof, files, netVars, sendVars, respVars,
                   searchVars, wireVars>>

\* response_queue.get returns the decision put by respond_to_confirmation
WaitGet(s) ==
    /\ pc[s] = "wait"
    /\ response_queue[s] # <<>>
    /\ decision' = [decision EXCEPT ![s] =
                       IF Head(response_queue[s]) = "accept"
                       THEN "accepted" ELSE "rejected"]
    /\ response_queue' = [response_queue EXCEPT ![s] = Tail(@)]
    /\ gui_wait' = [gui_wait EXCEPT ![s] = "got"]
    /\ pc' = [pc EXCEPT ![s] = "remove"]
    /\ UNCHANGED <<coreVars, lifeVars, filename, filesize, transfer_id, id_tmp,
                   ref_current, snapshot, received_bytes, fh, saw_eof, files,
                   netVars, sendVars, respVars,
                   searchVars, wireVars>>

\* a faulty wait: the timeout is taken for an acceptance
WaitTimeoutAccepts(s) ==
    /\ pc[s] = "wait"
    /\ response_queue[s] = <<>>
    /\ decision' = [decision EXCEPT ![s] = "accepted"]
    /\ gui_wait' = [gui_wait EXCEPT ![s] = "empty"]
    /\ pc' = [pc EXCEPT ![s] = "remove"]
    /\ UNCHANGED <<coreVars, lifeVars, filename, filesize, transfer_id, id_tmp,
                   ref_current, snapshot, response_queue, received_bytes,
                   fh, saw_eof, files, netVars, sendVars, respVars,
                   searchVars, wireVars>>

\* response_queue.get raises Empty after 300 s
WaitTimeout(s) ==
    /\ pc[s] = "wait"
    /\ response_queue[s] = <<>>
    /\ gui_wait' = [gui_wait EXCEPT ![s] = "empty"]
    /\ pc' = [pc EXCEPT ![s] = "remove"]
    /\ UNCHANGED <<coreVars, lifeVars, filename, filesize, decision, transfer_id,
                   id_tmp, ref_current, snapshot, response_queue, received_bytes,
                   fh, saw_eof, files, netVars, sendVars, respVars,
                   searchVars, wireVars>>

\* finally: take the lock and read the pending list
RemoveLoad(s) ==
    /\ pc[s] = "remove"
    /\ gui_confirmation_lock = NoThread
    /\ gui_confirmation_lock' = s
    /\ snapshot' = [snapshot EXCEPT ![s] = pending_gui_confirmations]
    /\ pc' = [pc EXCEPT ![s] = "remove_store"]
    /\ UNCHANGED <<confirmation_mode, server_running, stop_event, next_confirmation_id,
                   pending_gui_confirmations, lifeVars, filename, filesize, decision,
                   transfer_id, id_tmp, ref_current, response_queue, gui_wait,
                   received_bytes, fh, saw_eof, files, netVars, sendVars, respVars,
                   searchVars, wireVars>>

\* finally: store the list without the items of this id, release the lock
RemoveStore(s) ==
    /\ pc[s] = "remove_store"
    /\ pending_gui_confirmations' = WithoutId(snapshot[s], transfer_id[s])
    /\ gui_confirmation_lock' = NoThread
    /\ snapshot' = [snapshot EXCEPT ![s] = <<>>]
    /\ pc' = [pc EXCEPT ![s] = "reply"]
    /\ UNCHANGED <<confirmation_mode, server_running, stop_event, next_confirmation_id,
                   lifeVars, filename, filesize, decision, transfer_id, id_tmp,
                   ref_current, response_queue, gui_wait, received_bytes, fh, saw_eof,
                   files, netVars, sendVars, respVars,
                   searchVars, wireVars>>

\* a faulty reply: the return after REJECTED is missing
ReplyDecisionGoesOn(s) ==
    /\ pc[s] = "reply"
    /\ IF peer[s] # "rst"
       THEN /\ SendOk(s, IF decision[s] = "accepted" THEN "OK" ELSE "REJECTED")
            /\ pc' = [pc EXCEPT ![s] = "open"]
       ELSE SendFails(s) /\ pc' = [pc EXCEPT ![s] = "fault"]
    /\ UNCHANGED <<coreVars, lifeVars, filename, filesize, decision, transfer_id,
                   id_tmp, ref_current, snapshot, response_queue, gui_wait,
                   received_bytes, fh, saw_eof, files, inbuf, peer_body,
                   peer_hdr, sendVars, respVars, searchVars, wireVars>>

\* reply OK and go on to streaming, or reply REJECTED and return
ReplyDecision(s) ==
    /\ pc[s] = "reply"
    /\ IF peer[s] # "rst"
       THEN /\ SendOk(s, IF decision[s] = "accepted" THEN "OK" ELSE "REJECTED")
            /\ pc' = [pc EXCEPT ![s] = IF decision[s] = "accepted" THEN "open" ELSE "done"]
       ELSE SendFails(s) /\ pc' = [pc EXCEPT ![s] = "fault"]
    /\ UNCHANGED <<coreVars, lifeVars, filename, filesize, decision, transfer_id,
                   id_tmp, ref_current, snapshot, response_queue, gui_wait,
                   received_bytes, fh, saw_eof, files, inbuf, peer_body,
                   peer_hdr, sendVars, respVars,
                   searchVars, wireVars>>

(***************************************************************************)
(* _handle_file_reception_task: streaming and finalizing.                  *)
(***************************************************************************)
\* leaving the with block flushes the file object's bytes and closes it
\* (a file unlinked meanwhile stays unlinked)
CloseFile(s) ==
    /\ files' = IF filename[s] \in DOMAIN files
                THEN WriteFile(filename[s], Overlay(files[filename[s]], fh[s]))
                ELSE files
    /\ fh' = [fh EXCEPT ![s] = <<>>]

\* os.path.join("received_files", filename) names a directory: the
\* destination directory itself or its parent
IsDirName(name) == name \in { <<".">>, <<".", ".">> }

\* os.makedirs, open(file_path, "wb"): the file exists and is empty; open
\* raises IsADirectoryError for a directory
OpenFile(s) ==
    /\ pc[s] = "open"
    /\ IF IsDirName(filename[s])
       THEN /\ pc' = [pc EXCEPT ![s] = "fault"]
            /\ UNCHANGED <<files, fh, received_bytes>>
       ELSE /\ files' = WriteFile(filename[s], <<>>)
            /\ fh' = [fh EXCEPT ![s] = <<>>]
            /\ received_bytes' = [received_bytes EXCEPT ![s] = 0]
            /\ pc' = [pc EXCEPT ![s] = "stream"]
    /\ UNCHANGED <<coreVars, lifeVars, filename, filesize, decision, transfer_id,
                   id_tmp, ref_current, snapshot, response_queue, gui_wait, saw_eof,
                   netVars, sendVars, respVars,
                   searchVars, wireVars>>

\* the loop test and the stop_event test of one iteration
StreamCheck(s) ==
    /\ pc[s] = "stream"
    /\ IF received_bytes[s] < filesize[s]
       THEN IF stop_event
            THEN \* raise Exception("Server shutdown")
                 CloseFile(s) /\ pc' = [pc EXCEPT ![s] = "fault"]
            ELSE pc' = [pc EXCEPT ![s] = "recv"] /\ UNCHANGED <<files, fh>>
       ELSE CloseFile(s) /\ pc' = [pc EXCEPT ![s] = "final"]
    /\ UNCHANGED <<coreVars, lifeVars, filename, filesize, decision, transfer_id,
                   id_tmp, ref_current, snapshot, response_queue, gui_wait,
                   received_bytes, saw_eof, netVars, sendVars, respVars,
                   searchVars, wireVars>>

\* a faulty receive: every session reads the connection of session 1
StreamRecvShared(s) ==
    /\ pc[s] = "recv"
    /\ peer[s] # "rst"
    /\ inbuf[1] # <<>>
    /\ LET chunk == Take(inbuf[1], BUFFER_SIZE)
       IN  /\ inbuf' = [inbuf EXCEPT ![1] = Drop(@, BUFFER_SIZE)]
           /\ fh' = [fh EXCEPT ![s] = @ \o chunk]
           /\ received_bytes' = [received_bytes EXCEPT ![s] = @ + Len(chunk)]
    /\ pc' = [pc EXCEPT ![s] = "stream"]
    /\ UNCHANGED <<coreVars, lifeVars, filename, filesize, decision, transfer_id,
                   id_tmp, ref_current, snapshot, response_queue, gui_wait, saw_eof,
                   files, peer, sent, peer_body, peer_hdr, sendVars, respVars,
                   searchVars, wireVars>>

\* conn.recv returns a chunk, which is written
StreamRecv(s) ==
    /\ pc[s] = "recv"
    /\ peer[s] # "rst"
    /\ inbuf[s] # <<>>
    /\ LET chunk == Take(inbuf[s], BUFFER_SIZE)
       IN  /\ inbuf' = [inbuf EXCEPT ![s] = Drop(@, BUFFER_SIZE)]
           /\ fh' = [fh EXCEPT ![s] = @ \o chunk]
           /\ received_bytes' = [received_bytes EXCEPT ![s] = @ + Len(chunk)]
    /\ pc' = [pc EXCEPT ![s] = "stream"]
    /\ UNCHANGED <<coreVars, lifeVars, filename, filesize, decision, transfer_id,
                   id_tmp, ref_current, snapshot, response_queue, gui_wait, saw_eof,
                   files, peer, sent, peer_body, peer_hdr, sendVars, respVars,
                   searchVars, wireVars>>

\* conn.recv returns b"": the peer closed; break
StreamRecvEmpty(s) ==
    /\ pc[s] = "recv"
    /\ PeerClosed(s)
    /\ inbuf[s] = <<>>
    /\ saw_eof' = [saw_eof EXCEPT ![s] = TRUE]
    /\ CloseFile(s)
    /\ pc' = [pc EXCEPT ![s] = "final"]
    /\ UNCHANGED <<coreVars, lifeVars, filename, filesize, decision, transfer_id,
                   id_tmp, ref_current, snapshot, response_queue, gui_wait,
                   received_bytes, netVars, sendVars, respVars,
                   searchVars, wireVars>>

\* conn.recv raises: socket.timeout after 20 s of silence, or a reset connection
StreamRecvRaises(s) ==
    /\ pc[s] = "recv"
    /\ \/ peer[s] = "open" /\ inbuf[s] = <<>>
       \/ peer[s] = "rst"
    /\ CloseFile(s)
    /\ pc' = [pc EXCEPT ![s] = "fault"]
    /\ UNCHANGED <<coreVars, lifeVars, filename, filesize, decision, transfer_id,
                   id_tmp, ref_current, snapshot, response_queue, gui_wait,
                   received_bytes, saw_eof, netVars, sendVars, respVars,
                   searchVars, wireVars>>

\* reply SUCCESS, or reply FAILED and then remove the file
Finalize(s) ==
    /\ pc[s] = "final"
    /\ IF peer[s] = "rst"
       THEN SendFails(s) /\ pc' = [pc EXCEPT ![s] = "fault"] /\ UNCHANGED files
       ELSE IF received_bytes[s] = filesize[s]
            THEN /\ SendOk(s, "SUCCESS")
                 /\ pc' = [pc EXCEPT ![s] = "done"]
                 /\ UNCHANGED files
            ELSE /\ SendOk(s, "FAILED")
                 /\ files' = RemoveFile(filename[s])
                 /\ pc' = [pc EXCEPT ![s] = "done"]
    /\ UNCHANGED <<coreVars, lifeVars, filename, filesize, decision, transfer_id,
                   id_tmp, ref_current, snapshot, response_queue, gui_wait,
                   received_bytes, fh, saw_eof, inbuf, peer_body, peer_hdr,
                   sendVars, respVars,
                   searchVars, wireVars>>

\* a faulty handler: the exception ends the session with no reply attempted
FaultUnhandled(s) ==
    /\ pc[s] = "fault"
    /\ pc' = [pc EXCEPT ![s] = "done"]
    /\ UNCHANGED <<coreVars, lifeVars, filename, filesize, decision, transfer_id,
                   id_tmp, ref_current, snapshot, response_queue, gui_wait,
                   received_bytes, fh, saw_eof, files, netVars, sendVars, respVars,
                   searchVars, wireVars>>

\* except Exception: best-effort ERROR_TRANSFER, a failing send is swallowed;
\* finally: conn.close()
Fault(s) ==
    /\ pc[s] = "fault"
    /\ IF peer[s] # "rst" THEN SendOk(s, "ERROR_TRANSFER") ELSE SendFails(s)
    /\ pc' = [pc EXCEPT ![s] = "done"]
    /\ UNCHANGED <<coreVars, lifeVars, filename, filesize, decision, transfer_id,
                   id_tmp, ref_current, snapshot, response_queue, gui_wait,
                   received_bytes, fh, saw_eof, files, inbuf, peer_body,
                   peer_hdr, sendVars, respVars,
                   searchVars, wireVars>>

(***************************************************************************)
(* respond_to_confirmation                                                 *)
(***************************************************************************)
\* a faulty search: the first item of the list, whatever its id
FirstWithIdAny(items, id) == IF Len(items) > 0 THEN 1 ELSE 0

\* the first item of the list with this id, 0 if none
FirstWithId(items, id) ==
    IF id \in PendingIds(items)
    THEN CHOOSE i \in 1..Len(items) :
             items[i].id = id /\ \A j \in 1..(i - 1) : items[j].id # id
    ELSE 0

\* put_nowait on a Queue(1) succeeds when the queue is empty
PutOk(q) == Len(response_queue[q]) < 1

\* the value respond_to_confirmation returns
RespondReturn(id) ==
    LET i == FirstWithId(pending_gui_confirmations, id)
    IN  IF i = 0 THEN FALSE
        ELSE PutOk(pending_gui_confirmations[i].response_queue)

\* the calls that have returned True so far
RECURSIVE RespondTrueCount(_)
RespondTrueCount(S) ==
    IF S = {} THEN 0
    ELSE LET s == CHOOSE x \in S : TRUE
         IN  Len(resp_true[s]) + RespondTrueCount(S \ {s})

\* the whole call, under the lock: find the item, put the decision in its queue
RespondToConfirmation(id, d) ==
    /\ gui_confirmation_lock = NoThread
    /\ RespondReturn(id) => RespondTrueCount(Sessions) < MaxRespondTrue
    /\ IF RespondReturn(id)
       THEN LET q == pending_gui_confirmations[
                         FirstWithId(pending_gui_confirmations, id)].response_queue
            IN  /\ response_queue' = [response_queue EXCEPT ![q] = Append(@, d)]
                /\ resp_true' = [resp_true EXCEPT ![q] = Append(@, d)]
       ELSE UNCHANGED <<response_queue, resp_true>>
    /\ UNCHANGED <<coreVars, lifeVars, pc, filename, filesize, decision, transfer_id,
                   id_tmp, ref_current, snapshot, gui_wait, received_bytes, fh,
                   saw_eof, files, netVars, sendVars, searchVars, wireVars>>

(***************************************************************************)
(* start_server, stop_server                                               *)
(***************************************************************************)
\* thread.is_alive()
ListenerAlive(l) == l # 0 /\ lpc[l] \notin {"unborn", "failed", "exit"}

\* the discovery thread has been started and has not returned
DiscoveryAlive(l) == dpc[l] \in {"bind", "loop"}

\* a faulty start_server: the running check is missing
StartServerUnchecked ==
    /\ ctl = "idle"
    /\ file_listener_thread < MaxStarts
    /\ stop_event' = FALSE
    /\ file_listener_thread' = file_listener_thread + 1
    /\ lpc' = [lpc EXCEPT ![file_listener_thread + 1] = "create"]
    /\ dpc' = [dpc EXCEPT ![file_listener_thread + 1] = "bind"]
    /\ ctl' = "start_sleep"
    /\ UNCHANGED <<confirmation_mode, server_running, next_confirmation_id,
                   pending_gui_confirmations, gui_confirmation_lock,
                   file_listener_socket, start_ret, lsock>>
    /\ UNCHANGED <<sessVars, files, netVars, sendVars, respVars,
                   searchVars, wireVars>>

\* start_server up to time.sleep: the running check, stop_event.clear(), the
\* two threads created and started
StartServer ==
    /\ ctl = "idle"
    /\ IF server_running
       THEN /\ start_ret' = FALSE
            /\ UNCHANGED <<coreVars, file_listener_socket, file_listener_thread,
                           ctl, lpc, dpc, lsock>>
       ELSE /\ file_listener_thread < MaxStarts
            /\ stop_event' = FALSE
            /\ file_listener_thread' = file_listener_thread + 1
            /\ lpc' = [lpc EXCEPT ![file_listener_thread + 1] = "create"]
            /\ dpc' = [dpc EXCEPT ![file_listener_thread + 1] = "bind"]
            /\ ctl' = "start_sleep"
            /\ UNCHANGED <<confirmation_mode, server_running, next_confirmation_id,
                           pending_gui_confirmations, gui_confirmation_lock,
                           file_listener_socket, start_ret, lsock>>
    /\ UNCHANGED <<sessVars, files, netVars, sendVars, respVars,
                   searchVars, wireVars>>

\* start_server after time.sleep(0.2): the bind-failed test; stop_server() called
\* from here returns at once, server_running being False
StartServerCheck ==
    /\ ctl = "start_sleep"
    /\ IF file_listener_socket = NoSocket /\ ListenerAlive(file_listener_thread)
       THEN start_ret' = FALSE /\ UNCHANGED server_running
       ELSE start_ret' = TRUE /\ server_running' = TRUE
    /\ ctl' = "idle"
    /\ UNCHANGED <<confirmation_mode, stop_event, next_confirmation_id,
                   pending_gui_confirmations, gui_confirmation_lock,
                   file_listener_socket, file_listener_thread, lpc, dpc, lsock,
                   sessVars, files, netVars, sendVars, respVars,
                   searchVars, wireVars>>

\* stop_server: the running check and stop_event.set()
StopServer ==
    /\ ctl = "idle"
    /\ IF server_running
       THEN stop_event' = TRUE /\ ctl' = "stop_join"
       ELSE UNCHANGED <<stop_event, ctl>>
    /\ UNCHANGED <<confirmation_mode, server_running, next_confirmation_id,
                   pending_gui_confirmations, gui_confirmation_lock,
                   file_listener_socket, file_listener_thread, start_ret, lpc, dpc,
                   lsock, sessVars, files, netVars, sendVars, respVars,
                   searchVars, wireVars>>

\* stop_server: both joins have returned (thread ended, or timeout);
\* self.server_running = False
StopServerJoined ==
    /\ ctl = "stop_join"
    /\ server_running' = FALSE
    /\ ctl' = "stop_reset_id"
    /\ UNCHANGED <<confirmation_mode, stop_event, next_confirmation_id,
                   pending_gui_confirmations, gui_confirmation_lock,
                   file_listener_socket, file_listener_thread, start_ret, lpc, dpc,
                   lsock, sessVars, files, netVars, sendVars, respVars,
                   searchVars, wireVars>>

\* stop_server: self._next_confirmation_id = 0 (the lock is not taken)
StopServerResetId ==
    /\ ctl = "stop_reset_id"
    /\ next_confirmation_id' = 0
    /\ ctl' = "stop_reset_pending"
    /\ UNCHANGED <<confirmation_mode, server_running, stop_event,
                   pending_gui_confirmations, gui_confirmation_lock,
                   file_listener_socket, file_listener_thread, start_ret, lpc, dpc,
                   lsock, sessVars, files, netVars, sendVars, respVars,
                   searchVars, wireVars>>

\* stop_server: self.pending_gui_confirmations = [] (the lock is not taken); a
\* list object loaded before is no longer the attribute's
StopServerResetPending ==
    /\ ctl = "stop_reset_pending"
    /\ pending_gui_confirmations' = <<>>
    /\ ref_current' = [s \in Sessions |-> FALSE]
    /\ ctl' = "idle"
    /\ UNCHANGED <<confirmation_mode, server_running, stop_event,
                   next_confirmation_id, gui_confirmation_lock,
                   file_listener_socket, file_listener_thread, start_ret, lpc, dpc,
                   lsock, pc, filename, filesize, decision, transfer_id, id_tmp,
                   snapshot, response_queue, gui_wait, received_bytes, fh, saw_eof,
                   files, netVars, sendVars, respVars,
                   searchVars, wireVars>>

(***************************************************************************)
(* _listen_for_files_task, _listen_for_discovery_task                      *)
(***************************************************************************)
PortInUse == \E k \in Listeners : lsock[k] = "bound"

\* self.file_listener_socket is a listening socket
AttrListening ==
    file_listener_socket # NoSocket /\ lsock[file_listener_socket] = "bound"

\* self.file_listener_socket = socket.socket(...): the attribute names the
\* new socket
ListenerCreate(l) ==
    /\ lpc[l] = "create"
    /\ file_listener_socket' = l
    /\ lsock' = [lsock EXCEPT ![l] = "created"]
    /\ lpc' = [lpc EXCEPT ![l] = "bind"]
    /\ UNCHANGED <<coreVars, file_listener_thread, ctl, start_ret, dpc, sessVars,
                   files, netVars, sendVars, respVars,
                   searchVars, wireVars>>

\* bind and listen on the socket the attribute names
ListenerBind(l) ==
    /\ lpc[l] = "bind"
    /\ file_listener_socket # NoSocket
    /\ lsock[file_listener_socket] = "created"
    /\ ~PortInUse
    /\ lsock' = [lsock EXCEPT ![file_listener_socket] = "bound"]
    /\ lpc' = [lpc EXCEPT ![l] = "check"]
    /\ UNCHANGED <<coreVars, file_listener_socket, file_listener_thread, ctl,
                   start_ret, dpc, sessVars, files, netVars, sendVars, respVars,
                   searchVars, wireVars>>

\* bind raises socket.error (the port is held by another socket, or the socket
\* the attribute names is closed, or the attribute is None): the socket the
\* attribute names is closed, the attribute set to None, the thread returns
ListenerBindFails(l) ==
    /\ lpc[l] = "bind"
    /\ IF file_listener_socket # NoSocket
       THEN lsock' = [lsock EXCEPT ![file_listener_socket] = "closed"]
       ELSE UNCHANGED lsock
    /\ file_listener_socket' = NoSocket
    /\ lpc' = [lpc EXCEPT ![l] = "failed"]
    /\ UNCHANGED <<coreVars, file_listener_thread, ctl, start_ret, dpc, sessVars,
                   files, netVars, sendVars, respVars,
                   searchVars, wireVars>>

\* while not self.stop_event.is_set()
ListenerCheck(l) ==
    /\ lpc[l] = "check"
    /\ lpc' = [lpc EXCEPT ![l] = IF stop_event THEN "join" ELSE "accept"]
    /\ UNCHANGED <<coreVars, file_listener_socket, file_listener_thread, ctl,
                   start_ret, dpc, lsock, sessVars, files, netVars, sendVars, respVars,
                   searchVars, wireVars>>

\* self.file_listener_socket.accept() returns a connection: a reception
\* thread is started for it
ListenerAccept(l, s) ==
    /\ lpc[l] = "accept"
    /\ AttrListening
    /\ pc[s] = "idle"
    /\ peer[s] # "none"
    /\ pc' = [pc EXCEPT ![s] = "header"]
    /\ lpc' = [lpc EXCEPT ![l] = "check"]
    /\ UNCHANGED <<coreVars, file_listener_socket, file_listener_thread, ctl,
                   start_ret, dpc, lsock, filename, filesize, decision, transfer_id,
                   id_tmp, ref_current, snapshot, response_queue, gui_wait,
                   received_bytes, fh, saw_eof, files, netVars, sendVars, respVars,
                   searchVars, wireVars>>

\* accept raises socket.timeout after 1 s (continue); or the attribute is None
\* or names a socket that is closed or not listening, and the call raises
\* another exception (break if stop_event is set, else sleep and go on)
ListenerAcceptRaises(l) ==
    /\ lpc[l] = "accept"
    /\ lpc' = [lpc EXCEPT ![l] = IF ~AttrListening /\ stop_event
                                 THEN "join" ELSE "check"]
    /\ UNCHANGED <<coreVars, file_listener_socket, file_listener_thread, ctl,
                   start_ret, dpc, lsock, sessVars, files, netVars, sendVars, respVars,
                   searchVars, wireVars>>

\* after the loop: the reception threads joined (bounded), then the socket the
\* attribute names is closed and the attribute set to None
ListenerExit(l) ==
    /\ lpc[l] = "join"
    /\ IF file_listener_socket # NoSocket
       THEN /\ lsock' = [lsock EXCEPT ![file_listener_socket] = "closed"]
            /\ file_listener_socket' = NoSocket
       ELSE UNCHANGED <<lsock, file_listener_socket>>
    /\ lpc' = [lpc EXCEPT ![l] = "exit"]
    /\ UNCHANGED <<coreVars, file_listener_thread, ctl, start_ret, dpc, sessVars,
                   files, netVars, sendVars, respVars,
                   searchVars, wireVars>>

\* a socket object that nothing refers to any more (the attribute names
\* another socket or None, no accept call is under way) is finalized by the
\* interpreter, at once or at any later time or never: it is closed
SocketFinalized(k) ==
    /\ lsock[k] \in {"created", "bound"}
    /\ file_listener_socket # k
    /\ \A l \in Listeners : lpc[l] # "accept"
    /\ lsock' = [lsock EXCEPT ![k] = "closed"]
    /\ UNCHANGED <<coreVars, file_listener_socket, file_listener_thread, ctl,
                   start_ret, lpc, dpc, sessVars, files, netVars, sendVars, respVars,
                   searchVars, wireVars>>

\* the discovery socket is bound, or bind raises and the thread returns
DiscoveryBind(l, ok) ==
    /\ dpc[l] = "bind"
    /\ dpc' = [dpc EXCEPT ![l] = IF ok THEN "loop" ELSE "exit"]
    /\ UNCHANGED <<coreVars, file_listener_socket, file_listener_thread, ctl,
                   start_ret, lpc, lsock, sessVars, files, netVars, sendVars, respVars,
                   searchVars, wireVars>>

\* the discovery loop sees stop_event set, closes its socket and returns
DiscoveryExit(l) ==
    /\ dpc[l] = "loop"
    /\ stop_event
    /\ dpc' = [dpc EXCEPT ![l] = "exit"]
    /\ UNCHANGED <<coreVars, file_listener_socket, file_listener_thread, ctl,
                   start_ret, lpc, lsock, sessVars, files, netVars, sendVars, respVars,
                   searchVars, wireVars>>

(***************************************************************************)
(* Peers: whoever connects to the file port.                               *)
(***************************************************************************)
\* connect: the connection waits in the backlog of a listening socket
PeerConnect(s) ==
    /\ peer[s] = "none"
    /\ \A t \in Sessions : t < s => peer[t] # "none"
    /\ PortInUse
    /\ peer' = [peer EXCEPT ![s] = "open"]
    /\ UNCHANGED <<coreVars, lifeVars, sessVars, files, inbuf, sent, peer_body,
                   peer_hdr, sendVars, respVars,
                   searchVars, wireVars>>

\* the peer's first payload arrives
PeerSendHeader(s, h) ==
    /\ peer[s] = "open"
    /\ pc[s] # "done"
    /\ ~peer_hdr[s]
    /\ peer_hdr' = [peer_hdr EXCEPT ![s] = TRUE]
    /\ inbuf' = [inbuf EXCEPT ![s] = @ \o h]
    /\ UNCHANGED <<coreVars, lifeVars, sessVars, files, peer, sent, peer_body,
                   sendVars, respVars,
                   searchVars, wireVars>>

\* the peer writes its header in one sendall; the first k bytes arrive, the
\* rest is still on its way (k = Len(h): the header arrives whole)
PeerSendHeaderSplit(s, h, k) ==
    /\ peer[s] = "open"
    /\ pc[s] # "done"
    /\ ~peer_hdr[s]
    /\ k \in 1..Len(h)
    /\ peer_hdr' = [peer_hdr EXCEPT ![s] = TRUE]
    /\ inbuf' = [inbuf EXCEPT ![s] = @ \o Take(h, k)]
    /\ in_flight' = [in_flight EXCEPT ![s] = Drop(h, k)]
    /\ UNCHANGED <<coreVars, lifeVars, sessVars, files, peer, sent, peer_body,
                   sendVars, respVars, searchVars>>

\* the rest of the header arrives
HeaderRestArrives(s) ==
    /\ in_flight[s] # <<>>
    /\ peer[s] # "rst"
    /\ inbuf' = [inbuf EXCEPT ![s] = @ \o in_flight[s]]
    /\ in_flight' = [in_flight EXCEPT ![s] = <<>>]
    /\ UNCHANGED <<coreVars, lifeVars, sessVars, files, peer, sent, peer_body,
                   peer_hdr, sendVars, respVars, searchVars>>

\* body bytes of the peer arrive
PeerSendBody(s, chunk) ==
    /\ peer[s] = "open"
    /\ pc[s] # "done"
    /\ peer_hdr[s]
    /\ peer_body[s] + Len(chunk) <= MaxPeerBody
    /\ peer_body' = [peer_body EXCEPT ![s] = @ + Len(chunk)]
    /\ inbuf' = [inbuf EXCEPT ![s] = @ \o chunk]
    /\ UNCHANGED <<coreVars, lifeVars, sessVars, files, peer, sent, peer_hdr,
                   sendVars, respVars,
                   searchVars, wireVars>>

\* the peer closes its end: the receiver reads what arrived, then b""
PeerClose(s) ==
    /\ peer[s] = "open"
    /\ pc[s] # "done"
    /\ peer' = [peer EXCEPT ![s] = "fin"]
    /\ UNCHANGED <<coreVars, lifeVars, sessVars, files, inbuf, sent, peer_body,
                   peer_hdr, sendVars, respVars,
                   searchVars, wireVars>>

\* the connection is reset: the peer aborts it, or its host has answered bytes
\* sent to its closed socket with RST
PeerReset(s) ==
    /\ peer[s] \in {"open", "finx"}
    /\ pc[s] # "done"
    /\ peer' = [peer EXCEPT ![s] = "rst"]
    /\ UNCHANGED <<coreVars, lifeVars, sessVars, files, inbuf, sent, peer_body,
                   peer_hdr, sendVars, respVars,
                   searchVars, wireVars>>

(***************************************************************************)
(* send_file: the sender of connection s.                                  *)
(***************************************************************************)
\* the files send_file is called on: every byte string up to MaxFileLen
RECURSIVE ByteStrings(_)
ByteStrings(n) ==
    IF n = 0 THEN { <<>> }
    ELSE LET shorter == ByteStrings(n - 1)
         IN  shorter \cup { Append(b, c) : b \in shorter, c \in Bytes }

\* os.path.basename(filepath) of the file sender s sends
SrcName(s) == IF s = 1 THEN <<"a">> ELSE <<"b">>

\* the reply tokens that have arrived and were not read: recv returns them as
\* one string, the concatenation
Unread(s) == SubSeq(sent[s], rd[s] + 1, Len(sent[s]))
\* the string recv returned equals the token
IsToken(text, token) == text = <<token>>

\* the file exists; getsize; the host resolves; connect
SendFileConnect(s, content) ==
    /\ spc[s] = "idle"
    /\ peer[s] = "none"
    /\ \A t \in Sessions : t < s => peer[t] # "none"
    /\ PortInUse
    /\ src' = [src EXCEPT ![s] = content]
    /\ peer' = [peer EXCEPT ![s] = "open"]
    /\ spc' = [spc EXCEPT ![s] = "header"]
    /\ UNCHANGED <<coreVars, lifeVars, sessVars, files, inbuf, sent, peer_body,
                   peer_hdr, src_pos, rd, send_ret, respVars,
                   searchVars, wireVars>>

\* send_file returns a failure with no connection made: the path is not a
\* file, the host name does not resolve, or connect raises (refused, timeout)
\* and the with block closes the socket
SendFileNoConnection(s) ==
    /\ spc[s] = "idle"
    /\ peer[s] = "none"
    /\ send_ret' = [send_ret EXCEPT ![s] = "failure"]
    /\ spc' = [spc EXCEPT ![s] = "closed"]
    /\ UNCHANGED <<coreVars, lifeVars, sessVars, files, netVars, src, src_pos,
                   rd, respVars,
                   searchVars, wireVars>>

\* socket.gethostbyname raises an exception that is not socket.gaierror
\* (UnicodeError for a host name with an empty or too long label, as "a..b");
\* the call is outside the try block and the exception leaves send_file
SendFileHostRaises(s) ==
    /\ spc[s] = "idle"
    /\ peer[s] = "none"
    /\ send_ret' = [send_ret EXCEPT ![s] = "raised"]
    /\ spc' = [spc EXCEPT ![s] = "closed"]
    /\ UNCHANGED <<coreVars, lifeVars, sessVars, files, netVars, src, src_pos,
                   rd, respVars,
                   searchVars, wireVars>>

\* tcp_socket.sendall(f"{filename};{filesize}".encode())
SendFileHeader(s) ==
    /\ spc[s] = "header"
    /\ inbuf' = [inbuf EXCEPT ![s] = @ \o Header(SrcName(s), Len(src[s]))]
    /\ peer_hdr' = [peer_hdr EXCEPT ![s] = TRUE]
    /\ spc' = [spc EXCEPT ![s] = "confirm"]
    /\ UNCHANGED <<coreVars, lifeVars, sessVars, files, peer, sent, peer_body,
                   src, src_pos, rd, send_ret, respVars,
                   searchVars, wireVars>>

\* confirmation = tcp_socket.recv(BUFFER_SIZE).decode(): what has arrived, or
\* "" from a closed connection; anything but "OK" is returned as a rejection
SendFileConfirmation(s) ==
    /\ spc[s] = "confirm"
    /\ Unread(s) # <<>> \/ pc[s] = "done"
    /\ rd' = [rd EXCEPT ![s] = Len(sent[s])]
    /\ IF IsToken(Unread(s), "OK")
       THEN /\ spc' = [spc EXCEPT ![s] = "stream"]
            /\ UNCHANGED <<peer, send_ret>>
       ELSE /\ send_ret' = [send_ret EXCEPT ![s] = "failure"]
            /\ peer' = [peer EXCEPT ![s] = "fin"]
            /\ spc' = [spc EXCEPT ![s] = "closed"]
    /\ UNCHANGED <<coreVars, lifeVars, sessVars, files, inbuf, sent, peer_body,
                   peer_hdr, src, src_pos, respVars,
                   searchVars, wireVars>>

\* chunk = f.read(BUFFER_SIZE); break at end of file, else sendall(chunk),
\* which raises socket.error once the receiver has closed
SendFileChunk(s) ==
    /\ spc[s] = "stream"
    /\ LET chunk == Take(Drop(src[s], src_pos[s]), BUFFER_SIZE)
       IN  IF chunk = <<>>
           THEN /\ spc' = [spc EXCEPT ![s] = "final"]
                /\ UNCHANGED <<inbuf, src_pos, peer, send_ret, peer_body>>
           ELSE IF pc[s] = "done"
                THEN /\ send_ret' = [send_ret EXCEPT ![s] = "failure"]
                     /\ peer' = [peer EXCEPT ![s] = "fin"]
                     /\ spc' = [spc EXCEPT ![s] = "closed"]
                     /\ UNCHANGED <<inbuf, src_pos, peer_body>>
                ELSE /\ inbuf' = [inbuf EXCEPT ![s] = @ \o chunk]
                     /\ src_pos' = [src_pos EXCEPT ![s] = @ + Len(chunk)]
                     /\ peer_body' = [peer_body EXCEPT ![s] = @ + Len(chunk)]
                     /\ UNCHANGED <<spc, peer, send_ret>>
    /\ UNCHANGED <<coreVars, lifeVars, sessVars, files, sent, peer_hdr, src, rd,
                   respVars,
                   searchVars, wireVars>>

\* final_status = tcp_socket.recv(BUFFER_SIZE).decode(); "SUCCESS" is success,
\* anything else failure; the with block closes the socket
SendFileFinalStatus(s) ==
    /\ spc[s] = "final"
    /\ Unread(s) # <<>> \/ pc[s] = "done"
    /\ rd' = [rd EXCEPT ![s] = Len(sent[s])]
    /\ send_ret' = [send_ret EXCEPT ![s] =
                       IF IsToken(Unread(s), "SUCCESS") THEN "success" ELSE "failure"]
    /\ peer' = [peer EXCEPT ![s] = "fin"]
    /\ spc' = [spc EXCEPT ![s] = "closed"]
    /\ UNCHANGED <<coreVars, lifeVars, sessVars, files, inbuf, sent, peer_body,
                   peer_hdr, src, src_pos, respVars,
                   searchVars, wireVars>>

\* recv raises socket.timeout after 10 s without a reply: "Connection timeout."
SendFileTimeout(s) ==
    /\ spc[s] \in {"confirm", "final"}
    /\ Unread(s) = <<>>
    /\ pc[s] # "done"
    /\ send_ret' = [send_ret EXCEPT ![s] = "failure"]
    /\ peer' = [peer EXCEPT ![s] = "fin"]
    /\ spc' = [spc EXCEPT ![s] = "closed"]
    /\ UNCHANGED <<coreVars, lifeVars, sessVars, files, inbuf, sent, peer_body,
                   peer_hdr, src, src_pos, rd, respVars,
                   searchVars, wireVars>>

(***************************************************************************)
(* search_devices.  Time is counted in ticks; the socket timeout bounds    *)
(* the wait of one recvfrom.                                               *)
(***************************************************************************)
\* the datagrams that may arrive: two replies of one address, a reply of
\* another application, a reply without the application field, an unrelated
\* datagram
Datagrams ==
    { <<"h1", "ip1", APP_NAME>>, <<"h2", "ip1", APP_NAME>>,
      <<"h3", "ip2", "other">>, <<"h4", "ip3">>, <<"junk">> }

\* the ip of some entry collected is ip
Found(ip) == \E i \in 1..Len(found_servers) : found_servers[i].ip = ip

\* the list search_devices returns: the entries of this application and those
\* without the application field
SearchResult ==
    SelectSeq(found_servers, LAMBDA e : e.app = APP_NAME \/ e.app = "")

\* the socket is made, its timeout set, the probe broadcast
SearchDevices ==
    /\ sd_pc = "idle"
    /\ sd_pc' = "recv"
    /\ sd_clock' = 0
    /\ sd_wait' = 0
    /\ found_servers' = <<>>
    /\ UNCHANGED <<coreVars, lifeVars, sessVars, files, netVars, sendVars, respVars, wireVars>>

\* a tick passes while recvfrom waits; it waits no longer than the timeout
SearchTick ==
    /\ sd_pc = "recv"
    /\ sd_wait < SEARCH_TIMEOUT
    /\ sd_clock < MaxSearchClock
    /\ sd_clock' = sd_clock + 1
    /\ sd_wait' = sd_wait + 1
    /\ UNCHANGED <<sd_pc, found_servers>>
    /\ UNCHANGED <<coreVars, lifeVars, sessVars, files, netVars, sendVars, respVars, wireVars>>

\* recvfrom returns a datagram before its timeout: an entry is added for a new
\* ip of a datagram with two fields or more; the loop calls recvfrom again
SearchRecv(parts) ==
    /\ sd_pc = "recv"
    /\ sd_wait < SEARCH_TIMEOUT
    /\ found_servers' =
          IF Len(parts) >= 2 /\ ~Found(parts[2])
          THEN Append(found_servers,
                      [hostname |-> parts[1], ip |-> parts[2],
                       app |-> IF Len(parts) > 2 THEN parts[3] ELSE ""])
          ELSE found_servers
    /\ sd_wait' = 0
    /\ UNCHANGED <<sd_pc, sd_clock>>
    /\ UNCHANGED <<coreVars, lifeVars, sessVars, files, netVars, sendVars, respVars, wireVars>>

\* recvfrom raises socket.timeout: the loop ends, the socket is closed, the
\* list is returned
SearchTimesOut ==
    /\ sd_pc = "recv"
    /\ sd_wait = SEARCH_TIMEOUT
    /\ sd_pc' = "done"
    /\ UNCHANGED <<sd_clock, sd_wait, found_servers>>
    /\ UNCHANGED <<coreVars, lifeVars, sessVars, files, netVars, sendVars, respVars, wireVars>>

\* sendto or recvfrom raises another exception: ignored, the socket is
\* closed, what was collected is returned
SearchError ==
    /\ sd_pc = "recv"
    /\ sd_pc' = "done"
    /\ UNCHANGED <<sd_clock, sd_wait, found_servers>>
    /\ UNCHANGED <<coreVars, lifeVars, sessVars, files, netVars, sendVars, respVars, wireVars>>

SearchStep ==
    \/ SearchDevices \/ SearchTick
    \/ \E parts \in Datagrams : SearchRecv(parts)
    \/ SearchTimesOut \/ SearchError

(***************************************************************************)
(* The whole system: a FileSenderCore after construction, its threads,     *)
(* and its peers.                                                          *)
(***************************************************************************)
\* no connection has been made, nothing has been received or sent
InitSessions ==
    /\ pc = [s \in Sessions |-> "idle"]
    /\ filename = [s \in Sessions |-> <<>>]
    /\ filesize = [s \in Sessions |-> 0]
    /\ decision = [s \in Sessions |-> "rejected"]
    /\ transfer_id = [s \in Sessions |-> NoId]
    /\ id_tmp = [s \in Sessions |-> 0]
    /\ ref_current = [s \in Sessions |-> FALSE]
    /\ snapshot = [s \in Sessions |-> <<>>]
    /\ response_queue = [s \in Sessions |-> <<>>]
    /\ gui_wait = [s \in Sessions |-> "none"]
    /\ received_bytes = [s \in Sessions |-> 0]
    /\ fh = [s \in Sessions |-> <<>>]
    /\ saw_eof = [s \in Sessions |-> FALSE]
    /\ files = <<>>
    /\ peer = [s \in Sessions |-> "none"]
    /\ inbuf = [s \in Sessions |-> <<>>]
    /\ sent = [s \in Sessions |-> <<>>]
    /\ peer_body = [s \in Sessions |-> 0]
    /\ peer_hdr = [s \in Sessions |-> FALSE]
    /\ spc = [s \in Sessions |-> "idle"]
    /\ src = [s \in Sessions |-> <<>>]
    /\ src_pos = [s \in Sessions |-> 0]
    /\ rd = [s \in Sessions |-> 0]
    /\ send_ret = [s \in Sessions |-> "none"]
    /\ resp_true = [s \in Sessions |-> <<>>]
    /\ in_flight = [s \in Sessions |-> <<>>]
    /\ sd_pc = "idle"
    /\ sd_clock = 0
    /\ sd_wait = 0
    /\ found_servers = <<>>

\* __init__
Init ==
    /\ confirmation_mode \in {"cli", "gui"}
    /\ server_running = FALSE
    /\ stop_event = FALSE
    /\ next_confirmation_id = 0
    /\ pending_gui_confirmations = <<>>
    /\ gui_confirmation_lock = NoThread
    /\ file_listener_socket = NoSocket
    /\ file_listener_thread = 0
    /\ ctl = "idle"
    /\ start_ret = FALSE
    /\ lpc = [l \in Listeners |-> "unborn"]
    /\ dpc = [l \in Listeners |-> "unborn"]
    /\ lsock = [l \in Listeners |-> "none"]
    /\ InitSessions

\* every step of a receiver session
Session(s) ==
    \/ RecvHeader(s) \/ RecvHeaderEmpty(s) \/ RecvHeaderRaises(s)
    \/ RejectInvalidFilename(s)
    \/ \E answer \in Answers : ConfirmCli(s, answer)
    \/ GetNextIdLoad(s) \/ GetNextIdStore(s) \/ GetNextIdReturn(s)
    \/ RegisterLoad(s) \/ RegisterAppend(s)
    \/ WaitGet(s) \/ WaitTimeout(s)
    \/ RemoveLoad(s) \/ RemoveStore(s)
    \/ ReplyDecision(s)
    \/ OpenFile(s) \/ StreamCheck(s)
    \/ StreamRecv(s) \/ StreamRecvEmpty(s) \/ StreamRecvRaises(s)
    \/ Finalize(s) \/ Fault(s)

\* every step of start_server and stop_server and of the threads they start
Lifecycle ==
    \/ StartServer \/ StartServerCheck
    \/ StopServer \/ StopServerJoined \/ StopServerResetId \/ StopServerResetPending
    \/ \E l \in Listeners :
          \/ ListenerCreate(l)
          \/ ListenerBind(l) \/ ListenerBindFails(l) \/ ListenerCheck(l)
          \/ \E s \in Sessions : ListenerAccept(l, s)
          \/ ListenerAcceptRaises(l) \/ ListenerExit(l)
          \/ SocketFinalized(l)
          \/ \E ok \in BOOLEAN : DiscoveryBind(l, ok)
          \/ DiscoveryExit(l)

\* every step of a peer
Peer(s) ==
    \/ PeerConnect(s)
    \/ \E h \in PeerHeaders : PeerSendHeader(s, h)
    \/ \E chunk \in PeerChunks : PeerSendBody(s, chunk)
    \/ PeerClose(s) \/ PeerReset(s)

\* every step of a send_file call
SendFile(s) ==
    \/ SendFileNoConnection(s) \/ SendFileHostRaises(s)
    \/ \E content \in ByteStrings(MaxFileLen) : SendFileConnect(s, content)
    \/ SendFileHeader(s) \/ SendFileConfirmation(s) \/ SendFileChunk(s)
    \/ SendFileFinalStatus(s) \/ SendFileTimeout(s)

Next ==
    \/ \E s \in Sessions : Session(s) \/ Peer(s) \/ SendFile(s)
    \/ SearchStep
    \/ Lifecycle
    \/ \E id \in RespondIds, d \in Decisions : RespondToConfirmation(id, d)

Spec == Init /\ [][Next]_vars

(***************************************************************************)
(* The specifications the properties are checked under.  Each starts from  *)
(* the state a successful start_server leaves (listener 1 in its loop on   *)
(* its bound socket, the discovery thread in its loop) and takes the steps *)
(* of Next that its properties are about, with the peers it names.         *)
(***************************************************************************)
InitRunning ==
    /\ server_running = TRUE
    /\ stop_event = FALSE
    /\ next_confirmation_id = 0
    /\ pending_gui_confirmations = <<>>
    /\ gui_confirmation_lock = NoThread
    /\ file_listener_socket = 1
    /\ file_listener_thread = 1
    /\ ctl = "idle"
    /\ start_ret = TRUE
    /\ lpc = [l \in Listeners |-> IF l = 1 THEN "check" ELSE "unborn"]
    /\ dpc = [l \in Listeners |-> IF l = 1 THEN "loop" ELSE "unborn"]
    /\ lsock = [l \in Listeners |-> IF l = 1 THEN "bound" ELSE "none"]
    /\ InitSessions

\* stop_server and the listener that is running
StopAndListen ==
    \/ StopServer \/ StopServerJoined \/ StopServerResetId \/ StopServerResetPending
    \/ \E l \in Listeners :
          \/ ListenerCheck(l)
          \/ \E s \in Sessions : ListenerAccept(l, s)
          \/ ListenerAcceptRaises(l) \/ ListenerExit(l)

(***************************************************************************)
(* SpecGate: the asynchronous gate.  Two sessions in "gui" mode, respond   *)
(* callers, stop_server.  The peers send a header for an empty file, and   *)
(* may reset the connection when the session is about to reply.            *)
(***************************************************************************)
GateHeaders == { Header(<<"a">>, 0) }

InitGate == confirmation_mode = "gui" /\ InitRunning

SessionGate(s) ==
    \/ RecvHeader(s) \/ RecvHeaderRaises(s)
    \/ GetNextIdLoad(s) \/ GetNextIdStore(s) \/ GetNextIdReturn(s)
    \/ RegisterLoad(s) \/ RegisterAppend(s)
    \/ WaitGet(s) \/ WaitTimeout(s)
    \/ RemoveLoad(s) \/ RemoveStore(s)
    \/ ReplyDecision(s)
    \/ OpenFile(s) \/ StreamCheck(s) \/ Finalize(s) \/ Fault(s)

PeerGate(s) ==
    \/ PeerConnect(s)
    \/ \E h \in GateHeaders : PeerSendHeader(s, h)
    \/ pc[s] = "reply" /\ PeerReset(s)

NextGate ==
    \/ \E s \in Sessions : SessionGate(s) \/ PeerGate(s)
    \/ StopAndListen
    \/ \E id \in RespondIds, d \in Decisions : RespondToConfirmation(id, d)

SpecGate == InitGate /\ [][NextGate]_vars

(***************************************************************************)
(* SpecSession: one receiver session in "cli" mode against any peer:       *)
(* malformed headers, short and long bodies, close, reset, silence,        *)
(* and stop_server while it runs.                                          *)
(***************************************************************************)
InitSession == confirmation_mode = "cli" /\ InitRunning

SessionCli(s) ==
    \/ RecvHeader(s) \/ RecvHeaderEmpty(s) \/ RecvHeaderRaises(s)
    \/ RejectInvalidFilename(s)
    \/ \E answer \in Answers : ConfirmCli(s, answer)
    \/ ReplyDecision(s)
    \/ OpenFile(s) \/ StreamCheck(s)
    \/ StreamRecv(s) \/ StreamRecvEmpty(s) \/ StreamRecvRaises(s)
    \/ Finalize(s) \/ Fault(s)

NextSession ==
    \/ SessionCli(1) \/ Peer(1)
    \/ StopAndListen

SpecSession == InitSession /\ [][NextSession]_vars

(***************************************************************************)
(* SpecSend: send_file against the running server in "cli" mode, with no   *)
(* fault: no timeout, no reset, no stop.                                   *)
(***************************************************************************)
SessionNoFault(s) ==
    \/ RecvHeader(s)
    \/ \E answer \in Answers : ConfirmCli(s, answer)
    \/ ReplyDecision(s)
    \/ OpenFile(s) \/ StreamCheck(s) \/ StreamRecv(s)
    \/ Finalize(s)

SendFileNoFault(s) ==
    \/ \E content \in ByteStrings(MaxFileLen) : SendFileConnect(s, content)
    \/ SendFileHeader(s) \/ SendFileConfirmation(s) \/ SendFileChunk(s)
    \/ SendFileFinalStatus(s)

NextSend ==
    \/ SessionNoFault(1) \/ SendFileNoFault(1)
    \/ \E l \in Listeners :
          \/ ListenerCheck(l)
          \/ \E s \in Sessions : ListenerAccept(l, s)
          \/ ListenerAcceptRaises(l)

SpecSend == InitSession /\ [][NextSend]_vars


(***************************************************************************)
(* SpecLife: a FileSenderCore in "gui" mode from its construction, with    *)
(* start_server and stop_server called one after the other in any order,   *)
(* the threads they start, and one inbound session that waits out its      *)
(* confirmation.                                                           *)
(***************************************************************************)
InitLife == confirmation_mode = "gui" /\ Init

SessionLife(s) ==
    \/ RecvHeader(s) \/ RecvHeaderRaises(s)
    \/ GetNextIdLoad(s) \/ GetNextIdStore(s) \/ GetNextIdReturn(s)
    \/ RegisterLoad(s) \/ RegisterAppend(s)
    \/ WaitTimeout(s)
    \/ RemoveLoad(s) \/ RemoveStore(s)
    \/ ReplyDecision(s) \/ Fault(s)

PeerLife(s) ==
    \/ PeerConnect(s)
    \/ \E h \in GateHeaders : PeerSendHeader(s, h)

NextLife ==
    \/ Lifecycle
    \/ SessionLife(1) \/ PeerLife(1)

SpecLife == InitLife /\ [][NextLife]_vars

(***************************************************************************)
(* SpecPair: two concurrent inbound sessions with different filenames, in  *)
(* either confirmation mode, with no fault: no timeout, no reset, no stop. *)
(* Peer s offers its own file, sends its own byte value after the OK, one  *)
(* byte at a time, and may close after the OK.                             *)
(***************************************************************************)
\* the filename and the byte value of session s
PairNames == <<"a", "b", "c", "d">>
PairBytes == <<"x", "y", "z", "w">>
PairName(s) == <<PairNames[s]>>
PairByte(s) == PairBytes[s]
PairHeader(s) == Header(PairName(s), s)

InitPair == confirmation_mode \in {"cli", "gui"} /\ InitRunning

SessionPair(s) ==
    \/ RecvHeader(s)
    \/ \E answer \in Answers : ConfirmCli(s, answer)
    \/ GetNextIdLoad(s) \/ GetNextIdStore(s) \/ GetNextIdReturn(s)
    \/ RegisterLoad(s) \/ RegisterAppend(s)
    \/ WaitGet(s)
    \/ RemoveLoad(s) \/ RemoveStore(s)
    \/ ReplyDecision(s)
    \/ OpenFile(s) \/ StreamCheck(s) \/ StreamRecv(s) \/ StreamRecvEmpty(s)
    \/ Finalize(s)

PeerPair(s) ==
    \/ PeerConnect(s)
    \/ PeerSendHeader(s, PairHeader(s))
    \/ sent[s] = <<"OK">> /\ PeerSendBody(s, <<PairByte(s)>>)
    \/ sent[s] = <<"OK">> /\ PeerClose(s)

NextPair ==
    \/ \E s \in Sessions : SessionPair(s) \/ PeerPair(s)
    \/ \E l \in Listeners :
          \/ ListenerCheck(l)
          \/ \E s \in Sessions : ListenerAccept(l, s)
          \/ ListenerAcceptRaises(l)
    \/ \E id \in RespondIds, d \in Decisions : RespondToConfirmation(id, d)

SpecPair == InitPair /\ [][NextPair]_vars

(***************************************************************************)
(* SpecFault: two receiver sessions in "cli" mode, with stop_server.  The   *)
(* peer of session 1 sends a malformed or a well-formed header and body    *)
(* bytes, stays silent, closes or resets at any point; the peer of session *)
(* 2 offers its own file; stop_server sets stop_event.  Every step of a session thread is eventually    *)
(* taken when it stays possible: the socket timeout (20 s) expires, and    *)
(* the operator answers the prompt.                                        *)
(***************************************************************************)
FaultHeaders == { Header(<<"a">>, 1), Header(<<"/">>, 1), <<"a">> }

PeerFault(s) ==
    \/ PeerConnect(s)
    \/ \E h \in FaultHeaders : PeerSendHeader(s, h)
    \/ PeerSendBody(s, <<"x">>)
    \/ PeerClose(s) \/ PeerReset(s)

NextFault ==
    \/ \E s \in Sessions : SessionCli(s)
    \/ PeerFault(1) \/ PeerPair(2)
    \/ StopServer
    \/ \E l \in Listeners :
          \/ ListenerCheck(l)
          \/ \E s \in Sessions : ListenerAccept(l, s)
          \/ ListenerAcceptRaises(l)

SpecFault ==
    /\ InitSession /\ [][NextFault]_vars
    /\ \A s \in Sessions : WF_vars(SessionCli(s))

(***************************************************************************)
(* SpecSplit: one receiver session in "cli" mode whose peer writes the     *)
(* header a;12 and may close; the header arrives whole or split at any     *)
(* point.  No timeout, no reset, no stop.                                  *)
(***************************************************************************)
SplitHeader == Header(<<"a">>, 12)

SessionSplit(s) ==
    \/ RecvHeader(s)
    \/ \E answer \in Answers : ConfirmCli(s, answer)
    \/ ReplyDecision(s)
    \/ OpenFile(s) \/ StreamCheck(s) \/ StreamRecv(s) \/ StreamRecvEmpty(s)
    \/ Finalize(s) \/ Fault(s)

PeerSplit(s) ==
    \/ PeerConnect(s)
    \/ \E k \in 1..Len(SplitHeader) : PeerSendHeaderSplit(s, SplitHeader, k)
    \/ HeaderRestArrives(s)
    \/ PeerClose(s)

NextSplit ==
    \/ SessionSplit(1) \/ PeerSplit(1)
    \/ \E l \in Listeners :
          \/ ListenerCheck(l)
          \/ \E s \in Sessions : ListenerAccept(l, s)
          \/ ListenerAcceptRaises(l)

SpecSplit == InitSession /\ [][NextSplit]_vars

(***************************************************************************)
(* SpecNames: one receiver session in "cli" mode whose peer offers a       *)
(* filename with path separators or parent-directory segments.             *)
(***************************************************************************)
NameHeaders ==
    { Header(<<".", ".">>, 1),               \* ..
      Header(<<".", ".", "/", "a">>, 1),     \* ../a
      Header(<<"a", "/", ".", ".">>, 1),     \* a/..
      Header(<<"/", "a">>, 1),               \* /a
      Header(<<"a", "/">>, 1) }              \* a/

PeerNames(s) ==
    \/ PeerConnect(s)
    \/ \E h \in NameHeaders : PeerSendHeader(s, h)
    \/ \E chunk \in PeerChunks : sent[s] = <<"OK">> /\ PeerSendBody(s, chunk)
    \/ PeerClose(s)

NextNames ==
    \/ SessionCli(1) \/ PeerNames(1)
    \/ \E l \in Listeners :
          \/ ListenerCheck(l)
          \/ \E s \in Sessions : ListenerAccept(l, s)
          \/ ListenerAcceptRaises(l)

SpecNames == InitSession /\ [][NextNames]_vars

(***************************************************************************)
(* SpecSendAll: send_file against the server in "cli" mode with every      *)
(* fault: a host name that does not resolve, no connection, the sender's   *)
(* timeout, the receiver's timeout, a rejection, stop_server while the     *)
(* transfer runs.                                                          *)
(***************************************************************************)
SessionOfSender(s) ==
    \/ RecvHeader(s) \/ RecvHeaderRaises(s)
    \/ \E answer \in Answers : ConfirmCli(s, answer)
    \/ ReplyDecision(s)
    \/ OpenFile(s) \/ StreamCheck(s)
    \/ StreamRecv(s) \/ StreamRecvEmpty(s) \/ StreamRecvRaises(s)
    \/ Finalize(s) \/ Fault(s)

NextSendAll ==
    \/ SessionOfSender(1)
    \/ SendFile(1)
    \/ StopAndListen

SpecSendAll == InitSession /\ [][NextSendAll]_vars

(***************************************************************************)
(* SpecSearch: one search_devices call, with any datagrams arriving at     *)
(* any time.                                                               *)
(***************************************************************************)
InitSearch == confirmation_mode = "gui" /\ Init

SpecSearch == InitSearch /\ [][SearchStep]_vars

(***************************************************************************)
(* Properties.                                                             *)
(***************************************************************************)

\* C1: when send_file has returned and the receiver's session, having accepted
\* the offer, has finished without any fault, send_file returned success, the
\* receiver replied OK and then SUCCESS, and the file stored under the
\* sanitized name has exactly the bytes of the source file.
C1_SendFileRoundTrip ==
    \A s \in Sessions :
        (spc[s] = "closed" /\ pc[s] = "done" /\ decision[s] = "accepted") =>
            /\ send_ret[s] = "success"
            /\ sent[s] = <<"OK", "SUCCESS">>
            /\ filename[s] \in DOMAIN files
            /\ files[filename[s]] = src[s]


\* C2: after a receiver session has terminated, in whatever way, a file exists
\* under its final name only if the session read exactly the declared
\* filesize bytes; no partially written file is left behind.
C2_NoPartialFile ==
    \A s \in Sessions :
        (pc[s] = "done" /\ filename[s] \in DOMAIN files) =>
            received_bytes[s] = filesize[s]

\* C3: when the peer closes the connection of an accepted transfer before
\* filesize bytes have arrived (recv returns b""), the session replies FAILED
\* and no file with that name remains when the session has ended.
C3_EarlyCloseFailsAndRemoves ==
    \A s \in Sessions :
        (pc[s] = "done" /\ decision[s] = "accepted" /\ saw_eof[s]) =>
            /\ sent[s] = <<"OK", "FAILED">>
            /\ filename[s] \notin DOMAIN files


\* the positions of the pending items that belong to session s
ItemsOf(s) ==
    { i \in 1..Len(pending_gui_confirmations) :
          pending_gui_confirmations[i].response_queue = s }

\* C4: for one pending confirmation, at most one respond_to_confirmation call
\* returns True, however the calls interleave with the waiting session.
C4_AtMostOneRespondTrue ==
    \A s \in Sessions : Len(resp_true[s]) <= 1

\* C5: the session's reply agrees with every respond call that returned True
\* for its confirmation (accept: OK, reject: REJECTED), and a session whose
\* wait timed out replies REJECTED with no respond call having returned True.
C5_OutcomeAgreesWithRespond ==
    \A s \in Sessions :
        (sent[s] # <<>> /\ sent[s][1] \in {"OK", "REJECTED"}) =>
            /\ \A i \in 1..Len(resp_true[s]) :
                   (resp_true[s][i] = "accept") <=> (sent[s][1] = "OK")
            /\ gui_wait[s] = "empty" =>
                   (sent[s][1] = "REJECTED" /\ resp_true[s] = <<>>)

\* C6: a session whose wait ended with no decision in its queue is rejected:
\* it never replies OK, replies REJECTED unless the connection was reset,
\* never opens a file, and once its removal has run the pending list holds
\* no item of it; no session ever has two items in the list.
C6_UnansweredIsRejectedAndRemoved ==
    \A s \in Sessions :
        /\ Cardinality(ItemsOf(s)) <= 1
        /\ gui_wait[s] = "empty" =>
              /\ decision[s] = "rejected"
              /\ \A i \in 1..Len(sent[s]) : sent[s][i] # "OK"
              /\ (pc[s] = "done" /\ peer[s] # "rst") => sent[s] = <<"REJECTED">>
              /\ pc[s] \notin {"open", "stream", "recv", "final"}
              /\ fh[s] = <<>>
              /\ pc[s] \in {"reply", "fault", "done"} => ItemsOf(s) = {}

\* a session timed out, replied REJECTED and returned
C6_Witness ==
    \E s \in Sessions :
        /\ gui_wait[s] = "empty"
        /\ transfer_id[s] # NoId
        /\ pc[s] = "done"
        /\ sent[s] = <<"REJECTED">>

\* C7: in "gui" mode, from the moment a session is about to send its OK or
\* REJECTED reply, the pending list holds no item of that session, whether
\* the decision came from respond_to_confirmation or from the timeout.
C7_RemovedBeforeReply ==
    \A s \in Sessions :
        (confirmation_mode = "gui"
            /\ pc[s] \in {"reply", "open", "stream", "recv", "final", "done"}) =>
                ItemsOf(s) = {}

\* a session that got its decision from respond is about to reply, while the
\* item of another, still waiting, session is in the list
C7_Witness ==
    \E s, t \in Sessions :
        /\ s # t
        /\ pc[s] = "reply" /\ gui_wait[s] = "got"
        /\ pc[t] = "wait" /\ ItemsOf(t) # {}

\* C8: a respond_to_confirmation call with an id that no pending item has
\* returns False and leaves the pending list, the id counter and every
\* session's response queue unchanged: no step that changes one of them, or
\* in which a call returns True, is such a call.
C8_UnknownIdNoEffect ==
    [][(pending_gui_confirmations' # pending_gui_confirmations
           \/ next_confirmation_id' # next_confirmation_id
           \/ response_queue' # response_queue
           \/ resp_true' # resp_true) =>
              \A id \in RespondIds, d \in Decisions :
                  id \notin PendingIds(pending_gui_confirmations) =>
                      ~RespondToConfirmation(id, d)]_vars

\* respond_to_confirmation can run with an id that is not pending while a
\* session waits with its item in the list
C8_Witness ==
    \E s \in Sessions :
        /\ pc[s] = "wait" /\ ItemsOf(s) # {}
        /\ response_queue[s] = <<>>
        /\ gui_confirmation_lock = NoThread
        /\ \E id \in RespondIds : id \notin PendingIds(pending_gui_confirmations)

\* C9: no two sessions are ever given the same confirmation id.
C9_IdsUnique ==
    \A s, t \in Sessions :
        (s # t /\ transfer_id[s] # NoId /\ transfer_id[t] # NoId) =>
            transfer_id[s] # transfer_id[t]

\* C10: every step that changes the pending list or the id counter is taken
\* by the thread that holds gui_confirmation_lock.
C10_WritesUnderLock ==
    [][(pending_gui_confirmations' # pending_gui_confirmations
           \/ next_confirmation_id' # next_confirmation_id) =>
              /\ gui_confirmation_lock \in Sessions
              /\ pc'[gui_confirmation_lock] # pc[gui_confirmation_lock]]_vars


\* C11: when the listener's bind has failed by the time start_server makes its
\* test after the sleep, start_server returns False and leaves server_running
\* False.
C11_BindFailureLeavesStopped ==
    [][(ctl = "start_sleep" /\ ctl' = "idle"
           /\ lpc[file_listener_thread] = "failed") =>
              (start_ret' = FALSE /\ server_running' = FALSE)]_vars


\* C12: start_server called while server_running is True returns False and
\* changes nothing else (no thread is started); stop_server called while
\* server_running is False changes nothing at all.
C12_StartStopIdempotent ==
    [][/\ (ctl = "idle" /\ server_running /\ StartServer) =>
              (start_ret' = FALSE
                  /\ UNCHANGED <<coreVars, file_listener_socket,
                                 file_listener_thread, ctl, lpc, dpc, lsock,
                                 sessVars, files, netVars, sendVars, respVars,
                   searchVars, wireVars>>)
       /\ (ctl = "idle" /\ ~server_running /\ StopServer) =>
              UNCHANGED vars]_vars

\* start_server, called on the running server with a session registered, has
\* returned False
C12_Witness ==
    /\ server_running
    /\ ctl = "idle"
    /\ start_ret = FALSE
    /\ next_confirmation_id > 0
    /\ pending_gui_confirmations # <<>>


\* n bytes of the value peer s sends
OwnBytes(s, n) == [i \in 1..n |-> PairByte(s)]

\* C13: of two concurrent sessions with different filenames, each ends with
\* the outcome of its own decision and its own bytes: rejected, it replies
\* REJECTED and has no file; accepted with exactly filesize bytes received, it
\* replies OK then SUCCESS and its file holds its peer's bytes; accepted with
\* another count, it replies OK then FAILED and has no file.  In "gui" mode
\* its decision is the first one a respond call put in its own queue.
C13_SessionsIndependent ==
    \A s \in Sessions :
        /\ fh[s] = OwnBytes(s, Len(fh[s]))
        /\ pc[s] = "done" =>
              /\ filename[s] = PairName(s) /\ filesize[s] = s
              /\ received_bytes[s] <= peer_body[s]
              /\ confirmation_mode = "gui" =>
                    /\ resp_true[s] # <<>>
                    /\ (decision[s] = "accepted") <=> (resp_true[s][1] = "accept")
              /\ decision[s] = "rejected" =>
                    (sent[s] = <<"REJECTED">> /\ PairName(s) \notin DOMAIN files)
              /\ (decision[s] = "accepted" /\ received_bytes[s] = filesize[s]) =>
                    /\ sent[s] = <<"OK", "SUCCESS">>
                    /\ PairName(s) \in DOMAIN files
                    /\ files[PairName(s)] = OwnBytes(s, filesize[s])
              /\ (decision[s] = "accepted" /\ received_bytes[s] # filesize[s]) =>
                    (sent[s] = <<"OK", "FAILED">> /\ PairName(s) \notin DOMAIN files)

\* both sessions were accepted through respond_to_confirmation while the other
\* was under way, and both have ended with SUCCESS
C13_Witness ==
    /\ confirmation_mode = "gui"
    /\ \A s \in Sessions : pc[s] = "done" /\ sent[s] = <<"OK", "SUCCESS">>
    /\ Len(files[<<"b">>]) = 2


\* a name with no separator in it
NoSeparator(name) == \A i \in 1..Len(name) : name[i] # "/"

\* C14: a session that goes on past its filename test holds a sanitized name
\* that is non-empty, has no separator and is not the parent-directory
\* reference; and every file that exists is named by a single name inside
\* the destination directory.
C14_SanitizedOrRejected ==
    /\ \A s \in Sessions :
          pc[s] \in {"confirm", "reply", "open", "stream", "recv", "final"} =>
              /\ filename[s] # <<>>
              /\ NoSeparator(filename[s])
              /\ filename[s] # <<".", ".">>
    /\ \A name \in DOMAIN files : NoSeparator(name) /\ ~IsDirName(name)


\* C15: a send_file call that has returned has returned a success or a
\* failure, never an exception; it returned success only if the first reply
\* it read was exactly OK and the final status it read exactly SUCCESS; and
\* its connection is closed.  A call that has not returned has no outcome.
C15_SendFileOutcome ==
    \A s \in Sessions :
        /\ spc[s] # "closed" => send_ret[s] = "none"
        /\ spc[s] = "closed" =>
              /\ send_ret[s] \in {"success", "failure"}
              /\ send_ret[s] = "success" =>
                    /\ Len(sent[s]) >= 2
                    /\ sent[s][1] = "OK" /\ sent[s][2] = "SUCCESS"
                    /\ rd[s] = 2
              /\ peer[s] # "open"


\* C16: search_devices is never still in its receive loop when more than the
\* timeout has passed since the probe was sent, whatever datagrams arrive.
C16_SearchNeverBlocksPastTimeout ==
    sd_pc = "recv" => sd_clock <= SEARCH_TIMEOUT


\* token is one of the replies session s has sent
HasSent(s, token) == \E i \in 1..Len(sent[s]) : sent[s][i] = token

\* C17: the steps of a session are sequential.  OK is sent only once the
\* decision is "accepted", as the first reply; the file is created and bytes
\* are written only after OK was sent; SUCCESS or FAILED is sent only after
\* streaming has ended (the file closed, filesize bytes read or the peer's
\* close seen), as the last reply of the session; a session that replied
\* REJECTED has created no file and written no byte.
C17_StepsSequential ==
    \A s \in Sessions :
        /\ HasSent(s, "OK") =>
              /\ sent[s][1] = "OK"
              /\ decision[s] = "accepted"
              /\ pc[s] \in {"open", "stream", "recv", "final", "fault", "done"}
        /\ (pc[s] \in {"stream", "recv", "final"}
               \/ fh[s] # <<>> \/ received_bytes[s] > 0
               \/ filename[s] \in DOMAIN files) => HasSent(s, "OK")
        /\ (HasSent(s, "SUCCESS") \/ HasSent(s, "FAILED")) =>
              /\ pc[s] = "done"
              /\ Len(sent[s]) = 2 /\ sent[s][1] = "OK"
              /\ fh[s] = <<>>
              /\ received_bytes[s] >= filesize[s] \/ saw_eof[s]
              /\ HasSent(s, "SUCCESS") <=> received_bytes[s] = filesize[s]
        /\ HasSent(s, "REJECTED") =>
              /\ sent[s] = <<"REJECTED">>
              /\ decision[s] = "rejected"
              /\ pc[s] = "done"
              /\ files = <<>>

\* a session has gone through all its steps and replied SUCCESS
C17_Witness ==
    \E s \in Sessions :
        /\ pc[s] = "done"
        /\ sent[s] = <<"OK", "SUCCESS">>
        /\ filename[s] \in DOMAIN files
        /\ Len(files[filename[s]]) = 2


\* C18: once an acceptor thread has left its loop on stop_event and has
\* exited, the socket it listened on is not open any more, also when the
\* server was started again before that thread had finished.
C18_NoSocketLeftOpen ==
    \A l \in Listeners : lpc[l] = "exit" => lsock[l] # "bound"


C20_SplitHeaderSameFields ==
    \A s \in Sessions :
        (peer_hdr[s] /\ pc[s] \notin {"idle", "header"}) =>
            /\ filename[s] = HeaderName(SplitHeader)
            /\ filesize[s] = HeaderSize(SplitHeader)


\* C21: the bytes a session has written to its destination file, through
\* the open file object or already in the file, are never more than the
\* filesize its header declared, however the incoming bytes are chunked.
C21_WrittenWithinFilesize ==
    \A s \in Sessions :
        /\ Len(fh[s]) <= filesize[s]
        /\ (pc[s] \in {"stream", "recv", "final"} /\ filename[s] \in DOMAIN files) =>
               Len(files[filename[s]]) <= filesize[s]


\* C22: no two entries of the pending list carry the same id.
C22_PendingIdsDistinct ==
    \A i, j \in 1..Len(pending_gui_confirmations) :
        i # j => pending_gui_confirmations[i].id # pending_gui_confirmations[j].id


\* C23: at any time at most one acceptor thread and at most one discovery
\* thread of the FileSenderCore are alive.
C23_OneAcceptorOneResponder ==
    /\ Cardinality({l \in Listeners : ListenerAlive(l)}) <= 1
    /\ Cardinality({l \in Listeners : DiscoveryAlive(l)}) <= 1


\* C24: a session that is blocked in response_queue.get has its item in the
\* pending list, and every item of the pending list belongs to a session that
\* is blocked there or is on its way from there to the removal of its item.
C24_PendingIffWaiting ==
    /\ \A s \in Sessions : pc[s] = "wait" => ItemsOf(s) # {}
    /\ \A i \in 1..Len(pending_gui_confirmations) :
           pc[pending_gui_confirmations[i].response_queue]
               \in {"wait", "remove", "remove_store"}

=============================================================================
